---- MODULE Spec2Model ----
\* Boss Checker (src/main.rs): a checklist of (region, boss) rows built from a
\* catalog file and a save file, filtered every frame and saved on every edit.
\* Strings are sequences of one-character strings, so that lower-casing,
\* substring search and byte-order sorting are computed, not assumed.
EXTENDS Integers, Sequences, FiniteSets, TLC

\* ---------------------------------------------------------------- bounds
MaxRegions == 2
MaxRows == 2

\* ---------------------------------------------------------------- strings
CharCode(c) ==
  CASE c = "A" -> 65 [] c = "B" -> 66 [] c = "F" -> 70 [] c = "L" -> 76
    [] c = "O" -> 79 [] c = "W" -> 87 [] c = "a" -> 97 [] c = "b" -> 98
    [] c = "f" -> 102 [] c = "l" -> 108 [] c = "o" -> 111 [] c = "w" -> 119

LowerChar(c) ==
  CASE c = "A" -> "a" [] c = "B" -> "b" [] c = "F" -> "f" [] c = "L" -> "l"
    [] c = "O" -> "o" [] c = "W" -> "w" [] OTHER -> c

to_lowercase(s) == [i \in 1..Len(s) |-> LowerChar(s[i])]

contains(s, t) ==
  \E k \in 0..(Len(s) - Len(t)) : SubSeq(s, k + 1, k + Len(t)) = t

\* Ord for String: byte-wise lexicographic, a proper prefix sorts first.
StrLess(a, b) ==
  \E k \in 0..Len(a) :
    /\ k <= Len(b)
    /\ SubSeq(a, 1, k) = SubSeq(b, 1, k)
    /\ \/ k = Len(a) /\ k < Len(b)
       \/ k < Len(a) /\ k < Len(b) /\ CharCode(a[k + 1]) < CharCode(b[k + 1])

Range(f) == {f[i] : i \in DOMAIN f}

All == <<"A", "l", "l">>
Regions == {All, <<"A", "B">>, <<"F", "o">>}
\* the regions of the catalogs the running application is followed on
AppRegions == Regions \ {All}
BossNames == {<<"W", "o">>, <<"b">>}
\* text typed into the filter box while the application runs
Terms == {<<>>, <<"B">>}
\* arguments tried on filter_entries alone
FilterTerms == Terms \cup {<<"w", "O">>, <<"L", "L">>, <<"o">>}
Selectors == Regions \cup {<<"a", "l", "l">>}

\* ---------------------------------------------------------------- files
CONFIG_PATH == "config.json"
DefaultConfig ==
  [checklist_path |-> "boss_data.json", default_save |-> "default_save.json"]
Paths == {CONFIG_PATH, DefaultConfig.checklist_path, DefaultConfig.default_save}

Absent == [exists |-> FALSE, data |-> <<>>]
FileOf(d) == [exists |-> TRUE, data |-> d]

\* serde_json text, as a sequence of tokens
Open == [t |-> "open", v |-> <<>>]
Close == [t |-> "close", v |-> <<>>]
StrTok(s) == [t |-> "str", v |-> <<s>>]
PairTok(p) == [t |-> "pair", v |-> p]

ConfigToJson(c) == <<Open, StrTok(c.checklist_path), StrTok(c.default_save), Close>>

ConfigFromJson(d) ==
  IF /\ Len(d) = 4
     /\ d[1].t = "open" /\ d[2].t = "str" /\ d[3].t = "str" /\ d[4].t = "close"
  THEN [ok |-> TRUE,
        config |-> [checklist_path |-> d[2].v[1], default_save |-> d[3].v[1]]]
  ELSE [ok |-> FALSE, config |-> DefaultConfig]

PairLess(p, q) == StrLess(p[1], q[1]) \/ (p[1] = q[1] /\ StrLess(p[2], q[2]))

RECURSIVE IterOrder(_, _)
\* Iteration order of a HashSet<(String, String)>: unspecified, it depends on
\* the hasher's seed; two opposite orders stand for it.
IterOrder(S, seed) ==
  IF S = {} THEN <<>>
  ELSE LET p == IF seed = 0
                THEN CHOOSE x \in S : \A y \in S \ {x} : PairLess(x, y)
                ELSE CHOOSE x \in S : \A y \in S \ {x} : PairLess(y, x)
       IN <<p>> \o IterOrder(S \ {p}, seed)
Seeds == {0, 1}

\* one seed for each distinct order of S
SeedsOf(S) ==
  {seed \in Seeds : \A t \in Seeds : t < seed => IterOrder(S, t) # IterOrder(S, seed)}

StateToJson(completed, seed) ==
  <<Open>> \o [i \in 1..Cardinality(completed) |->
                 PairTok(IterOrder(completed, seed)[i])] \o <<Close>>

StateFromJson(d) ==
  IF /\ Len(d) >= 2
     /\ d[1].t = "open" /\ d[Len(d)].t = "close"
     /\ \A i \in 2..(Len(d) - 1) : d[i].t = "pair"
  THEN [ok |-> TRUE, completed |-> {d[i].v : i \in 2..(Len(d) - 1)}]
  ELSE [ok |-> FALSE, completed |-> {}]

\* write_all(buf): Ok once all of buf is written; Err after a proper prefix.
WriteOk == [ok |-> TRUE, n |-> 0]
WriteErrs(buf) == {[ok |-> FALSE, n |-> k] : k \in 0..(Len(buf) - 1)}
WriteOutcomes(buf) == {WriteOk} \cup WriteErrs(buf)

write_all(buf, w) == IF w.ok THEN buf ELSE SubSeq(buf, 1, w.n)

\* ---------------------------------------------------------------- catalog
BossLists == UNION {[1..k -> BossNames] : k \in 0..MaxRows}

RECURSIVE CountBosses(_)
CountBosses(cat) ==
  IF cat = <<>> THEN 0 ELSE Len(Head(cat).bosses) + CountBosses(Tail(cat))

\* the catalogs of at most MaxRegions entries and MaxRows bosses over regions R
Catalogs(R) ==
  {cat \in UNION {[1..k -> [region : R, bosses : BossLists]] : k \in 0..MaxRegions} :
     CountBosses(cat) <= MaxRows}

TableEntry(r, n, c, v) == [region |-> r, name |-> n, checked |-> c, visible |-> v]

RECURSIVE load_tables_by_name(_, _)
\* checked looked up by the boss name alone
load_tables_by_name(boss_data, completed) ==
  IF boss_data = <<>> THEN <<>>
  ELSE LET data == Head(boss_data) IN
       [i \in 1..Len(data.bosses) |->
          TableEntry(data.region, data.bosses[i],
                     \E p \in completed : p[2] = data.bosses[i], TRUE)]
       \o load_tables_by_name(Tail(boss_data), completed)

RECURSIVE load_tables(_, _)
load_tables(boss_data, completed) ==
  IF boss_data = <<>> THEN <<>>
  ELSE LET data == Head(boss_data) IN
       [i \in 1..Len(data.bosses) |->
          TableEntry(data.region, data.bosses[i],
                     <<data.region, data.bosses[i]>> \in completed, TRUE)]
       \o load_tables(Tail(boss_data), completed)

load_tables_from_file(f, file_path, completed) ==
  IF f[file_path].exists
  THEN [ok |-> TRUE, tables |-> load_tables(f[file_path].data, completed)]
  ELSE [ok |-> FALSE, tables |-> <<>>]

RECURSIVE SortStrings(_)
SortStrings(S) ==
  IF S = {} THEN <<>>
  ELSE LET m == CHOOSE x \in S : \A y \in S \ {x} : StrLess(x, y)
       IN <<m>> \o SortStrings(S \ {m})

RECURSIVE FirstSeen(_, _)
FirstSeen(es, seen) ==
  IF es = <<>> THEN <<>>
  ELSE IF Head(es).region \in seen THEN FirstSeen(Tail(es), seen)
  ELSE <<Head(es).region>> \o FirstSeen(Tail(es), seen \cup {Head(es).region})

\* the regions in insertion order, the sort left out
extract_regions_unsorted(es) == <<All>> \o FirstSeen(es, {All})

extract_regions(es) ==
  SortStrings({All} \cup {es[i].region : i \in DOMAIN es})

\* ---------------------------------------------------------------- filter
\* visible only ever cleared, never set again
filter_entries_sticky(es, search_region, search_boss) ==
  LET term == to_lowercase(search_boss) IN
  [i \in DOMAIN es |->
     LET entry == es[i]
         v1 == entry.visible /\ (search_region = All \/ entry.region = search_region)
         v2 == v1 /\ (\/ contains(to_lowercase(entry.name), term)
                      \/ contains(to_lowercase(entry.region), term))
     IN [entry EXCEPT !.visible = v2]]

\* the text match switches a row on instead of narrowing the region match
filter_entries_or(es, search_region, search_boss) ==
  LET term == to_lowercase(search_boss) IN
  [i \in DOMAIN es |->
     LET entry == es[i]
         v1 == (search_region = All \/ entry.region = search_region)
         v2 == v1 \/ (\/ contains(to_lowercase(entry.name), term)
                      \/ contains(to_lowercase(entry.region), term))
     IN [entry EXCEPT !.visible = v2]]

\* the rows that fail the filter are dropped from the list
filter_entries_retain(es, search_region, search_boss) ==
  LET term == to_lowercase(search_boss)
      Keep(entry) ==
        /\ (search_region = All \/ entry.region = search_region)
        /\ (\/ contains(to_lowercase(entry.name), term)
            \/ contains(to_lowercase(entry.region), term))
  IN SelectSeq(es, Keep)

filter_entries(es, search_region, search_boss) ==
  LET term == to_lowercase(search_boss) IN
  [i \in DOMAIN es |->
     LET entry == es[i]
         v1 == (search_region = All \/ entry.region = search_region)
         v2 == IF \/ contains(to_lowercase(entry.name), term)
                  \/ contains(to_lowercase(entry.region), term)
               THEN v1 /\ TRUE
               ELSE v1 /\ FALSE
     IN [entry EXCEPT !.visible = v2]]

\* ---------------------------------------------------------------- startup
Config_make_or_load_from_file(f, w) ==
  LET exists == f[CONFIG_PATH].exists
      f1 == IF ~exists
            THEN [f EXCEPT ![CONFIG_PATH] =
                    FileOf(write_all(ConfigToJson(DefaultConfig), w))]
            ELSE f
      parsed == ConfigFromJson(f1[CONFIG_PATH].data)
  IN [ok |-> parsed.ok, fs |-> f1, config |-> parsed.config,
      logged |-> IF ~exists /\ ~w.ok THEN 1 ELSE 0]

State_make_or_load_from_file(f, wc, ws) ==
  LET c == Config_make_or_load_from_file(f, wc) IN
  IF ~c.ok THEN [ok |-> FALSE, fs |-> c.fs, completed |-> {}, logged |-> c.logged]
  ELSE
    LET save_file_name == c.config.default_save
        exists == c.fs[save_file_name].exists
        f1 == IF ~exists
              THEN [c.fs EXCEPT ![save_file_name] =
                      FileOf(write_all(StateToJson({}, 0), ws))]
              ELSE c.fs
        parsed == StateFromJson(f1[save_file_name].data)
    IN [ok |-> parsed.ok, fs |-> f1, completed |-> parsed.completed,
        logged |-> c.logged + (IF ~exists /\ ~ws.ok THEN 1 ELSE 0)]

MyApp_default(f, wc, ws) ==
  LET c == Config_make_or_load_from_file(f, wc)
      s == State_make_or_load_from_file(c.fs, wc, ws)
      t == load_tables_from_file(s.fs, c.config.checklist_path, s.completed)
      none == [ok |-> FALSE, config |-> DefaultConfig, entries |-> <<>>,
               filter_regions |-> <<>>]
  IN IF ~c.ok THEN none @@ [fs |-> c.fs, logged |-> c.logged]
     ELSE IF ~s.ok THEN none @@ [fs |-> s.fs, logged |-> c.logged + s.logged]
     ELSE IF ~t.ok THEN none @@ [fs |-> s.fs, logged |-> c.logged + s.logged]
     ELSE [ok |-> TRUE, fs |-> s.fs, logged |-> c.logged + s.logged,
           config |-> c.config, entries |-> t.tables,
           filter_regions |-> extract_regions(t.tables)]

\* ---------------------------------------------------------------- frame
CheckedPairs(es) == {<<es[i].region, es[i].name>> : i \in {j \in DOMAIN es : es[j].checked}}

\* the file opened without truncate(true): the old tail stays
save_to_disk_no_truncate(f, cfg, es, seed, w) ==
  LET hash_set == CheckedPairs(es)
      path == cfg.default_save
      new == write_all(StateToJson(hash_set, seed), w)
      old == f[path].data
  IN IF ~f[path].exists THEN [ok |-> FALSE, fs |-> f]
     ELSE [ok |-> w.ok,
           fs |-> [f EXCEPT ![path] = FileOf(new \o SubSeq(old, Len(new) + 1, Len(old)))]]

save_to_disk(f, cfg, es, seed, w) ==
  LET hash_set == CheckedPairs(es)
      path == cfg.default_save
      serialized == StateToJson(hash_set, seed)
  IN IF ~f[path].exists THEN [ok |-> FALSE, fs |-> f]
     ELSE [ok |-> w.ok, fs |-> [f EXCEPT ![path] = FileOf(write_all(serialized, w))]]

\* the visible test left out of the grid loop
Rendered_all(es) == DOMAIN es

Rendered(es) == {i \in DOMAIN es : es[i].visible}

RECURSIVE grid_loop(_, _, _, _)
grid_loop(es, clicks, i, dirty) ==
  IF i > Len(es) THEN [entries |-> es, dirty |-> dirty]
  ELSE IF i \notin Rendered(es) THEN grid_loop(es, clicks, i + 1, dirty)
  ELSE IF i \in clicks
       THEN grid_loop([es EXCEPT ![i].checked = ~es[i].checked], clicks, i + 1, TRUE)
       ELSE grid_loop(es, clicks, i + 1, dirty)

\* dirty assigned, not accumulated: it keeps the last rendered row's answer
render_grid_last(es, clicks) ==
  LET r == Rendered(es) IN
  [entries |-> grid_loop(es, clicks, 1, FALSE).entries,
   dirty |-> r # {} /\ (CHOOSE m \in r : \A j \in r : j <= m) \in clicks]

render_grid(es, clicks) == grid_loop(es, clicks, 1, FALSE)

\* ---------------------------------------------------------------- state
VARIABLES pc, fs, stderr, config, entries, region_filter, boss_filter,
          filter_regions, saveCalls

vars == <<pc, fs, stderr, config, entries, region_filter, boss_filter,
          filter_regions, saveCalls>>

\* the save file at launch: absent, or an earlier save of the pairs S
SaveFiles(SS) ==
  {Absent} \cup {FileOf(StateToJson(S, seed)) : S \in SS, seed \in Seeds}

Fs(c, s, b) ==
  [p \in Paths |->
     IF p = CONFIG_PATH THEN c
     ELSE IF p = DefaultConfig.default_save THEN s ELSE b]

ConfigFiles == {Absent, FileOf(ConfigToJson(DefaultConfig))}

InitPairs == {<<<<"F", "o">>, <<"W", "o">>>>}

\* The running application is followed on the catalogs whose entries all list
\* a boss: an entry without bosses adds no row, and StartSpec covers those.
AppCatalogs ==
  {cat \in Catalogs(AppRegions) : \A k \in DOMAIN cat : cat[k].bosses # <<>>}

InitFs ==
  {Fs(c, s, b) : c \in ConfigFiles, s \in SaveFiles(SUBSET InitPairs),
                 b \in {Absent} \cup {FileOf(cat) : cat \in AppCatalogs}}

Unbuilt ==
  /\ config = DefaultConfig
  /\ entries = <<>>
  /\ region_filter = All
  /\ boss_filter = <<>>
  /\ filter_regions = <<>>

Init ==
  /\ pc = "start"
  /\ fs \in InitFs
  /\ stderr = 0
  /\ saveCalls = 0
  /\ Unbuilt

\* main: eframe::run_native builds MyApp::default() and enters the frame loop;
\* a panic ends the process, and with it the application state.
Startup ==
  /\ pc = "start"
  /\ \E wc \in WriteOutcomes(ConfigToJson(DefaultConfig)),
        ws \in WriteOutcomes(StateToJson({}, 0)) :
       LET app == MyApp_default(fs, wc, ws) IN
       /\ fs' = app.fs
       /\ stderr' = stderr + app.logged
       /\ pc' = IF app.ok THEN "rendering" ELSE "aborted"
       /\ config' = app.config
       /\ entries' = app.entries
       /\ filter_regions' = app.filter_regions
       /\ region_filter' = All
       /\ boss_filter' = <<>>
       /\ saveCalls' = 0

\* One frame: MyApp::update, returning to the event loop.
Update ==
  /\ pc = "rendering"
  /\ LET filtered == filter_entries(entries, region_filter, boss_filter) IN
     \E clicks \in SUBSET Rendered(filtered) :
       LET grid == render_grid(filtered, clicks) IN
       /\ entries' = grid.entries
       /\ IF grid.dirty
          THEN \E seed \in SeedsOf(CheckedPairs(grid.entries)) :
                 LET saved == save_to_disk(fs, config, grid.entries, seed, WriteOk) IN
                 /\ saved.ok
                 /\ fs' = saved.fs
                 /\ saveCalls' = 1
          ELSE /\ fs' = fs
               /\ saveCalls' = 0
  /\ \E new_region \in Range(filter_regions) \cup {region_filter} :
       region_filter' = new_region
  /\ \E new_term \in Terms : boss_filter' = new_term
  /\ UNCHANGED <<pc, stderr, config, filter_regions>>

\* One frame: MyApp::update, when save_to_disk panics on a failed write.
UpdatePanic ==
  /\ pc = "rendering"
  /\ LET filtered == filter_entries(entries, region_filter, boss_filter) IN
     \E clicks \in SUBSET Rendered(filtered) :
       LET grid == render_grid(filtered, clicks) IN
       /\ grid.dirty
       /\ \E seed \in SeedsOf(CheckedPairs(grid.entries)) :
            \E w \in WriteErrs(StateToJson(CheckedPairs(grid.entries), seed)) :
              LET saved == save_to_disk(fs, config, grid.entries, seed, w) IN
              /\ ~saved.ok
              /\ fs' = saved.fs
  /\ pc' = "aborted"
  /\ saveCalls' = 1
  /\ region_filter' = All
  /\ boss_filter' = <<>>
  /\ entries' = <<>>
  /\ config' = DefaultConfig
  /\ filter_regions' = <<>>
  /\ UNCHANGED stderr

Next == Startup \/ Update \/ UpdatePanic

Spec == Init /\ [][Next]_vars

\* Launch alone, from every catalog over Regions and every earlier save.
StartPairs == InitPairs \cup {<<<<"A", "B">>, <<"b">>>>, <<All, <<"W", "o">>>>}

StartFs ==
  {Fs(c, s, FileOf(cat)) : c \in ConfigFiles, s \in SaveFiles(SUBSET StartPairs),
                           cat \in Catalogs(Regions)}

StartInit ==
  /\ pc = "start"
  /\ fs \in StartFs
  /\ stderr = 0
  /\ saveCalls = 0
  /\ Unbuilt

StartNext == Startup

StartSpec == StartInit /\ [][StartNext]_vars

\* filter_entries alone, on every row list, selector and search term.
Rows ==
  UNION {[1..k -> [region : Regions, name : BossNames,
                   checked : BOOLEAN, visible : BOOLEAN]] : k \in 0..MaxRows}

FilterInit ==
  /\ pc = "filter_call"
  /\ entries \in Rows
  /\ region_filter \in Selectors
  /\ boss_filter \in FilterTerms
  /\ fs = Fs(Absent, Absent, Absent)
  /\ stderr = 0
  /\ saveCalls = 0
  /\ config = DefaultConfig
  /\ filter_regions = <<>>

FilterCall ==
  /\ pc = "filter_call"
  /\ entries' = filter_entries(entries, region_filter, boss_filter)
  /\ pc' = "filter_return"
  /\ UNCHANGED <<fs, stderr, config, region_filter, boss_filter, filter_regions,
                 saveCalls>>

FilterNext == FilterCall

FilterSpec == FilterInit /\ [][FilterNext]_vars

\* ---------------------------------------------------------------- properties
RegionMatch(row, selector) == selector = All \/ row.region = selector

TextMatch(row, term) ==
  \/ contains(to_lowercase(row.name), to_lowercase(term))
  \/ contains(to_lowercase(row.region), to_lowercase(term))

Key(row) == <<row.region, row.name>>
Keys(es) == [i \in DOMAIN es |-> Key(es[i])]

RECURSIVE FlattenCatalog(_)
FlattenCatalog(cat) ==
  IF cat = <<>> THEN <<>>
  ELSE [i \in 1..Len(Head(cat).bosses) |-> <<Head(cat).region, Head(cat).bosses[i]>>]
       \o FlattenCatalog(Tail(cat))

CatalogOnDisk == fs[config.checklist_path].data

\* what a relaunch would load from the save file as it is now
Reloaded == State_make_or_load_from_file(fs, WriteOk, WriteOk)

\* C1: after filter_entries a row is visible exactly when the selector is "All"
\* or equals its region (case-sensitively) and the lower-cased term occurs in
\* its lower-cased name or region, whatever its visible flag was before.
C1_FilterSetsVisible ==
  pc = "filter_return" =>
    \A i \in DOMAIN entries :
      entries[i].visible <=>
        (RegionMatch(entries[i], region_filter) /\ TextMatch(entries[i], boss_filter))

C1_Witness ==
  /\ pc = "filter_return"
  /\ region_filter # All
  /\ to_lowercase(boss_filter) # boss_filter
  /\ \E i \in DOMAIN entries : entries[i].visible
  /\ \E i \in DOMAIN entries : ~entries[i].visible /\ entries[i].region = region_filter

\* C7: with a selector other than "All" a visible row has the selector's
\* region; when no row has that region, no row is visible, whatever the term.
C7_SelectorImpliesRegion ==
  (pc = "filter_return" /\ region_filter # All) =>
    /\ \A i \in DOMAIN entries : entries[i].visible => entries[i].region = region_filter
    /\ (\A i \in DOMAIN entries : entries[i].region # region_filter)
         => \A i \in DOMAIN entries : ~entries[i].visible

C7_Witness ==
  /\ pc = "filter_return"
  /\ region_filter # All
  /\ entries # <<>>
  /\ \A i \in DOMAIN entries : entries[i].region # region_filter
  /\ \E i \in DOMAIN entries : TextMatch(entries[i], boss_filter)

Toggled == {i \in DOMAIN entries : entries'[i].checked # entries[i].checked}

\* C2: a frame that toggles at least one checkbox calls save_to_disk exactly
\* once, after the last row was rendered (the file then holds the rows as the
\* frame leaves them); a frame that toggles none does not call it and leaves
\* the file alone.
C2_OneSavePerDirtyFrame ==
  [][pc = "rendering" =>
       IF pc' = "rendering"
       THEN /\ Len(entries') = Len(entries)
            /\ saveCalls' = (IF Toggled # {} THEN 1 ELSE 0)
            /\ Toggled = {} => fs' = fs
            /\ Toggled # {} =>
                 StateFromJson(fs'[config.default_save].data).completed
                   = CheckedPairs(entries')
       ELSE saveCalls' = 1]_vars

C2_Witness ==
  /\ pc = "rendering"
  /\ saveCalls = 1
  /\ Cardinality({i \in DOMAIN entries : entries[i].checked}) >= 2
  /\ \E i \in DOMAIN entries : ~entries[i].visible

\* C3: right after a frame that saved, reloading the save file gives exactly
\* the (region, name) pairs of the checked rows, nothing of the earlier file.
C3_SaveThenReload ==
  (pc = "rendering" /\ saveCalls = 1) =>
    /\ Reloaded.ok
    /\ Reloaded.completed = CheckedPairs(entries)

C3_Witness ==
  /\ pc = "rendering"
  /\ saveCalls = 1
  /\ entries # <<>>
  /\ CheckedPairs(entries) = {}

\* C4 as claimed: the pairs of the checked rows built from a catalog and a
\* completion set C are C, for every catalog and every C.
C4_RoundTripAnySet ==
  pc = "rendering" =>
    CheckedPairs(entries) = StateFromJson(fs[config.default_save].data).completed

\* C4 amended: the pairs of the checked rows built from a catalog and a
\* completion set C are the pairs of C that name a row of the catalog, hence C
\* itself when every pair of C names a row.
C4_RoundTripWithinCatalog ==
  pc = "rendering" =>
    LET C == StateFromJson(fs[config.default_save].data).completed
        inCatalog == Range(FlattenCatalog(CatalogOnDisk))
    IN /\ CheckedPairs(entries) = C \cap inCatalog
       /\ C \subseteq inCatalog => CheckedPairs(entries) = C

C4_Witness ==
  /\ pc = "rendering"
  /\ CheckedPairs(entries) # {}
  /\ StateFromJson(fs[config.default_save].data).completed
       \subseteq Range(FlattenCatalog(CatalogOnDisk))
  /\ \E i \in DOMAIN entries : ~entries[i].checked

Ascending(seq) == \A i, j \in DOMAIN seq : i < j => StrLess(seq[i], seq[j])

\* C5 as claimed: the region index holds "All" once, its other entries are
\* the distinct regions of the catalog, and it is in ascending order.
C5_RegionIndexOfCatalog ==
  pc = "rendering" =>
    /\ Cardinality({i \in DOMAIN filter_regions : filter_regions[i] = All}) = 1
    /\ {filter_regions[i] : i \in {j \in DOMAIN filter_regions : filter_regions[j] # All}}
         = {CatalogOnDisk[k].region : k \in DOMAIN CatalogOnDisk}
    /\ Ascending(filter_regions)

\* C5 amended: the region index is strictly ascending in byte order and its
\* entries are "All" together with the regions of the catalog entries that
\* list at least one boss (the regions of the rows).
C5_RegionIndexOfRows ==
  pc = "rendering" =>
    /\ Range(filter_regions) =
         {All} \cup {CatalogOnDisk[k].region :
                       k \in {j \in DOMAIN CatalogOnDisk : CatalogOnDisk[j].bosses # <<>>}}
    /\ Ascending(filter_regions)

C5_Witness ==
  /\ pc = "rendering"
  /\ Len(filter_regions) = 2
  /\ filter_regions[1] # All
  /\ \E k \in DOMAIN CatalogOnDisk : CatalogOnDisk[k].bosses = <<>>

\* C6: while the application runs the rows keep their number, order, regions
\* and names, those of the catalog flattened in catalog order; a frame that
\* does not save leaves every checked flag as it was.
C6_RowsFixed ==
  [][(pc = "rendering" /\ pc' = "rendering") =>
       /\ Keys(entries') = Keys(entries)
       /\ Keys(entries') = FlattenCatalog(CatalogOnDisk)
       /\ saveCalls' = 0 =>
            \A i \in DOMAIN entries' : entries'[i].checked = entries[i].checked]_vars

C6_Witness ==
  /\ pc = "rendering"
  /\ Len(entries) >= 2
  /\ \E i \in DOMAIN entries : ~entries[i].visible /\ entries[i].checked
  /\ \E i \in DOMAIN entries : entries[i].visible /\ ~entries[i].checked

\* C8 as claimed: a launch that logs a failed write of a default file goes on
\* to the rendering state with the default configuration.
C8_BootstrapWriteFailureTolerated ==
  [][(pc = "start" /\ stderr' > stderr) =>
       (pc' = "rendering" /\ config' = DefaultConfig)]_vars

\* C9 as claimed: at every frame boundary a row is checked exactly when its
\* (region, name) pair is in the completion set held by the save file.
C9_CheckedIffSaved ==
  pc = "rendering" =>
    /\ Reloaded.ok
    /\ \A i \in DOMAIN entries :
         entries[i].checked <=> Key(entries[i]) \in Reloaded.completed

\* C10: the rows a frame renders are those that pass the filter for the
\* selector and the term held when the frame began, also when the frame ends
\* with other values; a row not rendered keeps its checked flag.
C10_FrameUsesStartFilter ==
  [][(pc = "rendering" /\ pc' = "rendering") =>
       \A i \in DOMAIN entries :
         /\ i \in DOMAIN entries'
         /\ entries'[i].visible <=>
              (RegionMatch(entries[i], region_filter) /\ TextMatch(entries[i], boss_filter))
         /\ ~entries'[i].visible => entries'[i].checked = entries[i].checked]_vars

C10_Witness ==
  /\ pc = "rendering"
  /\ saveCalls = 1
  /\ \E i \in DOMAIN entries :
       /\ entries[i].visible
       /\ ~(RegionMatch(entries[i], region_filter) /\ TextMatch(entries[i], boss_filter))

====
